---- MODULE Spec2Model ----
(***************************************************************************)
(* The edge pipeline of server/index.ts: the middleware stack built while  *)
(* the module loads, the asynchronous bootstrap (registerRoutes, terminal  *)
(* error handler, setupVite or serveStatic, listen), and the walk of one   *)
(* request through the installed stack (Express's router: layers in        *)
(* installation order, error mode skipping to the next error handler).     *)
(***************************************************************************)
EXTENDS Integers, Sequences, FiniteSets, TLC

\* ------------------------------------------------------------------ bounds

\* requests a client may issue past a limiter's maximum before the model stops it
Overshoot == 1
\* requests parked in a business handler at the same time
MaxInFlight == 1
\* counted requests of the second client in the limiter specifications
MaxOtherHits == 1
\* counted requests of a client in the pipeline specification
MaxFewHits == 1
\* successful logins counted per window
MaxLoginOk == 1

\* ------------------------------------------------------- program constants

GeneralMax == 100
AdminMax == 5

GeneralMessage == [success |-> FALSE, message |-> "Troppi tentativi. Riprova più tardi."]
AdminLoginMessage ==
    [success |-> FALSE, message |-> "Troppi tentativi di login. Riprova tra 15 minuti."]

Clients == {"c1", "c2"}
Methods == {"GET", "POST"}

LoginPath == "/api/admin/login"
CtReportPath == "/api/security/ct-report"
ApiPaths == {"/api/items", LoginPath, CtReportPath}
AssetPaths == {"/assets/app.js", "/assets/missing.js"}
UploadPaths == {"/uploads/a.png"}
Paths == ApiPaths \cup AssetPaths \cup UploadPaths \cup {"/favicon.ico", "/page"}

\* files of a built client, relative to the build output directory
BuiltFiles == {"/index.html", "/assets/app.js", "/favicon.ico"}

\* the directories serveStatic may probe
Dirs == {"FRONTEND_DIR", "dirname/public", "cwd/dist/public", "cwd/public", "cwd/client/dist"}
DirStates == {"absent", "empty", "built"}
NoDir == "none"

VARIABLES
    isProd,         \* app.get("env") === "production"
    serveStaticImpl,\* which serveStatic the build links: "candidates" | "single"
    frontendDir,    \* process.env.FRONTEND_DIR set
    dirs,           \* the file system: Dirs -> DirStates
    stack,          \* the app's layers in installation order
    boot,           \* "routes" | "vite" | "listening" | "exited"
    failedStep,     \* the installation step that failed, or "none"
    listenCalls,    \* calls of server.listen
    exitCode,       \* process.exit code, -1 while running
    distPath,       \* the resolved static root, NoDir before
    genHits,        \* generalLimiter's store: client -> hits
    admHits,        \* adminLoginLimiter's store: client -> hits
    win,            \* history of the admin-login window per client
    inflight,       \* requests parked in a business handler
    last            \* the most recent arrival or completion, as observed

vars == <<isProd, serveStaticImpl, frontendDir, dirs, stack, boot, failedStep,
          listenCalls, exitCode, distPath, genHits, admHits, win, inflight,
          last>>

envVars == <<isProd, serveStaticImpl, frontendDir, dirs>>
bootVars == <<stack, boot, failedStep, listenCalls, exitCode, distPath>>

\* ------------------------------------------------------------ the stack

\* forceHTTPS mounted whatever the mode
ProdOnlyAlways(prod) == <<"forceHTTPS">>

\* index.ts 31-33: forceHTTPS only in production
ProdOnly(prod) == IF prod THEN <<"forceHTTPS">> ELSE <<>>

\* the two limiters mounted the other way round
ModuleStackSwapped(prod) ==
    ProdOnly(prod) \o
    <<"cors", "addSecurityHeaders", "addHTTPSSecurityHeaders", "ctReport",
      "json", "urlencoded", "adminLoginLimiter", "generalLimiter", "uploads",
      "logger">>

\* index.ts 28-120: what loading the module installs, in order
ModuleStack(prod) ==
    ProdOnly(prod) \o
    <<"cors", "addSecurityHeaders", "addHTTPSSecurityHeaders", "ctReport",
      "json", "urlencoded", "generalLimiter", "adminLoginLimiter", "uploads",
      "logger">>

\* index.ts 127-142: the business routes, then the error handler
AfterRoutes(s) == s \o <<"routes", "errorHandler">>

\* setupVite: vite.middlewares, then the "*" catch-all
ViteLayers == <<"viteMiddlewares", "devCatchAll">>

\* serveStatic of index.ts 248-286: /assets, the root, the GET "*" fallback
CandidateLayers == <<"assetsStatic", "rootStatic", "spaFallback">>

\* serveStatic of server/vite.ts 86-110: the root, the GET "*" fallback
SingleLayers == <<"rootStatic", "spaFallback">>

StaticLayers(impl) == IF impl = "candidates" THEN CandidateLayers ELSE SingleLayers

\* ------------------------------------------------- static root resolution

\* index.ts 250-256: the override first when set, then the conventional places
Candidates(fd) ==
    (IF fd THEN <<"FRONTEND_DIR">> ELSE <<>>) \o
    <<"dirname/public", "cwd/dist/public", "cwd/public", "cwd/client/dist">>

HasIndex(fs, d) == fs[d] = "built"
Exists(fs, d) == fs[d] # "absent"

\* candidates.find(p => existsSync(join(p, "index.html")))
FindFirst(cands, fs) ==
    IF \E i \in 1..Len(cands) : HasIndex(fs, cands[i])
    THEN cands[CHOOSE i \in 1..Len(cands) :
                 /\ HasIndex(fs, cands[i])
                 /\ \A j \in 1..(i-1) : ~HasIndex(fs, cands[j])]
    ELSE NoDir

\* server/vite.ts 87-95: one directory, which only has to exist
SingleRoot(fd, fs) ==
    LET d == IF fd THEN "FRONTEND_DIR" ELSE "dirname/public"
    IN  IF Exists(fs, d) THEN d ELSE NoDir

ResolveRoot(impl, fd, fs) ==
    IF impl = "candidates" THEN FindFirst(Candidates(fd), fs) ELSE SingleRoot(fd, fs)

\* ------------------------------------------------------------ one request

NoBody == [none |-> TRUE]

\* the path prefixes Express's mounts match on
UnderApi(p) == p \in ApiPaths
\* the admin-login limiter mounted on a path the login route does not have
UnderLoginTypo(p) == p = "/api/login"

\* the admin-login limiter mounted on the whole API prefix
UnderLoginWholeApi(p) == p \in ApiPaths

UnderLogin(p) == p = LoginPath
UnderAssets(p) == p \in AssetPaths
UnderUploads(p) == p \in UploadPaths

\* the routes registerRoutes installs answer the business API paths
BusinessPaths == {"/api/items", LoginPath}

\* files vite's own middlewares answer in development (the public directory)
ViteServed == {"/favicon.ico"}

\* a file of the resolved build output
FileExists(p) == distPath # NoDir /\ dirs[distPath] = "built" /\ p \in BuiltFiles

\* the state a request carries down the stack
StartWalk(g, a) ==
    [passed |-> <<>>, err |-> 0, errBy |-> "none", done |-> FALSE, parked |-> FALSE,
     at |-> 0, by |-> "none", status |-> 0, body |-> NoBody,
     headersSent |-> FALSE, doubleWrite |-> FALSE, aborted |-> FALSE,
     gen |-> g, adm |-> a, genTotal |-> 0, admTotal |-> 0,
     hook |-> FALSE, logger |-> FALSE, loggable |-> TRUE]

Respond(st, s, code, b) ==
    [st EXCEPT !.done = TRUE, !.by = s, !.status = code, !.body = b,
               !.headersSent = TRUE]

Forward(st, s, code) == [st EXCEPT !.err = code, !.errBy = s]

\* httpsRedirect.forceHTTPS: an insecure request is redirected
ForceHTTPS(rq, st) ==
    IF rq.secure THEN st ELSE Respond(st, "forceHTTPS", 301, [location |-> "https"])

\* express.json(): a body that does not parse is forwarded as a 400 error
JsonParser(s, rq, st) == IF rq.bodyOk THEN st ELSE Forward(st, s, 400)

\* httpsRedirect.handleCTViolationReport: acknowledges whatever was reported
HandleCTViolationReport(st) == Respond(st, "ctReport", 200, [success |-> TRUE])

\* index.ts 45: express.json(), then handleCTViolationReport
CtReport(rq, st) ==
    IF rq.bodyOk THEN HandleCTViolationReport(st) ELSE Forward(st, "ctReport", 400)

\* a limiter that rejects the request that reaches its maximum
OverGeneralOffByOne(hits) == hits >= GeneralMax

\* index.ts 58: max: 100, exceeded when the hits pass it
OverGeneral(hits) == hits > GeneralMax

OverAdminOffByOne(hits) == hits >= AdminMax

\* index.ts 70: max: 5
OverAdmin(hits) == hits > AdminMax

\* index.ts 56-65 and 81: count the request, reject past max
GeneralLimiter(rq, st) ==
    LET n == st.gen[rq.client] + 1
        counted == [st EXCEPT !.gen[rq.client] = n, !.genTotal = n]
    IN  IF OverGeneral(n) THEN Respond(counted, "generalLimiter", 429, GeneralMessage)
        ELSE counted

\* index.ts 68-78 and 82: the same, and skipSuccessfulRequests hooks the finish
AdminLoginLimiter(rq, st) ==
    LET n == st.adm[rq.client] + 1
        counted == [st EXCEPT !.adm[rq.client] = n, !.admTotal = n, !.hook = TRUE]
    IN  IF OverAdmin(n) THEN Respond(counted, "adminLoginLimiter", 429, AdminLoginMessage)
        ELSE counted

\* index.ts 87: express.static with the default fallthrough
Uploads(rq, st) ==
    IF rq.method = "GET" THEN Respond(st, "uploads", 200, [file |-> rq.path]) ELSE st

\* index.ts 92-120: wrap res.json, hook the finish, go on
Logger(rq, st) == [st EXCEPT !.logger = TRUE]

\* a wrapper that sends what it captured for the log line
LoggedJsonSnippet(body) == [snippet |-> body]

\* index.ts 98-101: the wrapper records the body and hands it to the original
LoggedJson(body) == body

\* res.json as a handler below the logger finds it
ResJson(st, body) == IF st.logger THEN LoggedJson(body) ELSE body

\* index.ts 130-134: res.status(status).json({message}), whatever was sent before
ErrorHandler(st) ==
    LET seen == [st EXCEPT !.passed = Append(@, "errorHandler"), !.done = TRUE]
    IN  IF st.headersSent
        THEN [seen EXCEPT !.doubleWrite = TRUE, !.aborted = TRUE]
        ELSE [seen EXCEPT !.by = "errorHandler", !.status = st.err,
                          !.body = ResJson(st, [message |-> "error"]),
                          !.headersSent = TRUE]

\* vite.middlewares: answers what the dev server serves, passes the rest on
ViteMiddlewares(rq, st) ==
    IF rq.method = "GET" /\ rq.path \in ViteServed
    THEN Respond(st, "viteMiddlewares", 200, [file |-> rq.path]) ELSE st

\* server/vite.ts 59-79: read the template, transform, answer; or next(e)
DevCatchAll(rq, st) ==
    IF rq.tplOk THEN Respond(st, "devCatchAll", 200, [html |-> "transformed"])
    ELSE Forward(st, "devCatchAll", 500)

\* index.ts 270-277: express.static on /assets with fallthrough: false
AssetsStatic(rq, st) ==
    IF rq.method # "GET" THEN Respond(st, "assetsStatic", 405, NoBody)
    ELSE IF FileExists(rq.path) THEN Respond(st, "assetsStatic", 200, [file |-> rq.path])
    ELSE Forward(st, "assetsStatic", 404)

\* express.static(distPath) with the default fallthrough
RootStatic(rq, st) ==
    IF rq.method = "GET" /\ FileExists(rq.path)
    THEN Respond(st, "rootStatic", 200, [file |-> rq.path]) ELSE st

\* app.get("*"): res.sendFile(index.html); a missing file is forwarded
SpaFallback(rq, st) ==
    IF FileExists("/index.html") THEN Respond(st, "spaFallback", 200, [file |-> "/index.html"])
    ELSE Forward(st, "spaFallback", 404)

\* whether the layer's mount path and method match the request
Matches(s, rq) ==
    CASE s = "ctReport" -> rq.method = "POST" /\ rq.path = CtReportPath
      [] s = "generalLimiter" -> UnderApi(rq.path)
      [] s = "adminLoginLimiter" -> UnderLogin(rq.path)
      [] s = "uploads" -> UnderUploads(rq.path)
      [] s = "routes" -> rq.path \in BusinessPaths
      [] s = "assetsStatic" -> UnderAssets(rq.path)
      [] s = "spaFallback" -> rq.method = "GET"
      [] OTHER -> TRUE

Handle(s, i, rq, st) ==
    CASE s = "forceHTTPS" -> ForceHTTPS(rq, st)
      [] s = "ctReport" -> CtReport(rq, st)
      [] s = "json" -> JsonParser(s, rq, st)
      [] s = "generalLimiter" -> GeneralLimiter(rq, st)
      [] s = "adminLoginLimiter" -> AdminLoginLimiter(rq, st)
      [] s = "uploads" -> Uploads(rq, st)
      [] s = "logger" -> Logger(rq, st)
      [] s = "routes" -> [st EXCEPT !.parked = TRUE, !.at = i]
      [] s = "viteMiddlewares" -> ViteMiddlewares(rq, st)
      [] s = "devCatchAll" -> DevCatchAll(rq, st)
      [] s = "assetsStatic" -> AssetsStatic(rq, st)
      [] s = "rootStatic" -> RootStatic(rq, st)
      [] s = "spaFallback" -> SpaFallback(rq, st)
      [] OTHER -> st

\* Express's router on one layer: error handlers run only in error mode, the
\* other layers only outside it and only when they match
Layer(s, i, rq, st) ==
    IF s = "errorHandler" THEN (IF st.err # 0 THEN ErrorHandler(st) ELSE st)
    ELSE IF st.err # 0 \/ ~Matches(s, rq) THEN st
    ELSE Handle(s, i, rq, [st EXCEPT !.passed = Append(@, s)])

\* Express's finalhandler: nothing answered, or an error nobody handled
FinalHandler(st) ==
    IF st.headersSent THEN [st EXCEPT !.done = TRUE, !.aborted = TRUE]
    ELSE Respond(st, "finalhandler", IF st.err # 0 THEN st.err ELSE 404,
                 [html |-> "finalhandler"])

RECURSIVE Walk(_, _, _, _)
Walk(layers, i, rq, st) ==
    IF st.done \/ st.parked THEN st
    ELSE IF i > Len(layers) THEN FinalHandler(st)
    ELSE Walk(layers, i + 1, rq, Layer(layers[i], i, rq, st))

\* ------------------------------------------------------------ observation

\* what a client did in its current windows: requests that reached the general
\* limiter (api) and the admin-login limiter (seen), logins of this window the
\* handler answered below 400 (ok) or failed (fail), and whether a login of an
\* earlier window was answered below 400 in this one (leak), whether the
\* admin-login limiter rejected the client in this window (over), and whether
\* each limiter rejected it in the window of its that ended last
ZeroWin ==
    [api |-> 0, seen |-> 0, ok |-> 0, fail |-> 0, leak |-> FALSE, over |-> FALSE,
     genEnded |-> FALSE, admEnded |-> FALSE]

NoEvent ==
    [ev |-> "none", client |-> "none", method |-> "none", path |-> "none",
     passed |-> <<>>, parked |-> FALSE, by |-> "none", status |-> 0, body |-> NoBody,
     err |-> 0, errBy |-> "none", doubleWrite |-> FALSE, aborted |-> FALSE,
     genTotal |-> 0, admTotal |-> 0, before |-> ZeroWin, decremented |-> FALSE,
     logged |-> 0, snippet |-> FALSE, loggable |-> TRUE,
     bare |-> [status |-> 0, body |-> NoBody]]

\* the response's finish event fires unless the socket was torn down
Finished(st) == st.done /\ ~st.aborted

\* a limiter configured without skipSuccessfulRequests
DecrementsNever(st) == FALSE

\* skipSuccessfulRequests: on finish, a response below 400 gives the hit back
Decrements(st) == Finished(st) /\ st.hook /\ st.status < 400

Decrement(hits, c) == IF hits[c] > 0 THEN [hits EXCEPT ![c] = @ - 1] ELSE hits

\* index.ts 103-117: one line per finished response of an /api path
LogLines(rq, st) == IF Finished(st) /\ st.logger /\ UnderApi(rq.path) THEN 1 ELSE 0

\* index.ts 107-113: the line carries the body res.json captured, unless
\* JSON.stringify throws on it
Snippet(rq, st) ==
    /\ LogLines(rq, st) = 1
    /\ st.by \in {"routes", "errorHandler"}
    /\ st.loggable

\* the stack with the logger's layer doing nothing
Unlogged(layers) ==
    [i \in 1..Len(layers) |-> IF layers[i] = "logger" THEN "none" ELSE layers[i]]

\* what the client gets: status and body
Delivered(st) == [status |-> st.status, body |-> st.body]

Observe(ev, rq, st, w, bare) ==
    [ev |-> ev, client |-> rq.client, method |-> rq.method, path |-> rq.path,
     passed |-> st.passed, parked |-> st.parked, by |-> st.by, status |-> st.status,
     body |-> st.body, err |-> st.err, errBy |-> st.errBy,
     doubleWrite |-> st.doubleWrite, aborted |-> st.aborted,
     genTotal |-> st.genTotal, admTotal |-> st.admTotal, before |-> w,
     decremented |-> Decrements(st), logged |-> LogLines(rq, st),
     snippet |-> Snippet(rq, st), loggable |-> st.loggable, bare |-> Delivered(bare)]

InSeq(x, s) == \E i \in 1..Len(s) : s[i] = x

\* ------------------------------------------------------------ environments

Env(prod, impl, fd, fs) == [prod |-> prod, impl |-> impl, fd |-> fd, fs |-> fs]

NoBuild == [d \in Dirs |-> "absent"]

\* every deployment: any mode, either serveStatic, any state of the directories
\* (a development checkout has no build output and no override)
Environments ==
    {e \in [prod : BOOLEAN, impl : {"candidates", "single"}, fd : BOOLEAN,
            fs : [Dirs -> DirStates]] :
        /\ ~e.fd => e.fs["FRONTEND_DIR"] = "absent"
        /\ ~e.prod => ~e.fd /\ e.fs = NoBuild}

\* deployments whose build output sits beside the server bundle, with or
\* without its index.html, and the development checkout
PipelineEnvironments ==
    {e \in Environments :
        /\ ~e.fd
        /\ \A d \in Dirs \ {"dirname/public"} : e.fs[d] = "absent"
        /\ e.prod => e.fs["dirname/public"] # "absent"
        /\ ~e.prod => e.impl = "single"}

\* a complete production deployment and the development checkout
LimiterEnvironments ==
    {e \in PipelineEnvironments :
        e.prod => e.fs["dirname/public"] = "built" /\ e.impl = "candidates"}

\* a complete production deployment
ProductionEnvironments == {e \in LimiterEnvironments : e.prod}

\* ---------------------------------------------------------------- actions

InitIn(envs) ==
    /\ \E e \in envs :
        /\ isProd = e.prod
        /\ serveStaticImpl = e.impl
        /\ frontendDir = e.fd
        /\ dirs = e.fs
    /\ stack = ModuleStack(isProd)
    /\ boot = "routes"
    /\ failedStep = "none"
    /\ listenCalls = 0
    /\ exitCode = -1
    /\ distPath = NoDir
    /\ genHits = [c \in Clients |-> 0]
    /\ admHits = [c \in Clients |-> 0]
    /\ win = [c \in Clients |-> ZeroWin]
    /\ inflight = <<>>
    /\ last = NoEvent

\* index.ts 159-163: the bootstrap's catch
Fatal(step) ==
    /\ boot' = "exited"
    /\ failedStep' = step
    /\ exitCode' = 1
    /\ UNCHANGED listenCalls

\* index.ts 156: server.listen
Listen ==
    /\ boot' = "listening"
    /\ listenCalls' = listenCalls + 1
    /\ UNCHANGED <<failedStep, exitCode>>

\* a serveStatic that mounts whatever it resolved instead of throwing
ServeStaticLenient(installed) ==
    /\ distPath' = ResolveRoot(serveStaticImpl, frontendDir, dirs)
    /\ stack' = installed \o StaticLayers(serveStaticImpl)
    /\ Listen

\* index.ts 149: serveStatic(app) throws, or mounts its layers
ServeStatic(installed) ==
    LET root == ResolveRoot(serveStaticImpl, frontendDir, dirs)
    IN  IF root = NoDir
        THEN /\ Fatal("serveStatic")
             /\ stack' = installed
             /\ UNCHANGED distPath
        ELSE /\ distPath' = root
             /\ stack' = installed \o StaticLayers(serveStaticImpl)
             /\ Listen

\* index.ts 127-150: registerRoutes resolved; the error handler is installed,
\* then development awaits setupVite and production runs serveStatic and listens
RoutesRegistered ==
    /\ boot = "routes"
    /\ IF isProd
       THEN ServeStatic(AfterRoutes(stack))
       ELSE /\ stack' = AfterRoutes(stack)
            /\ boot' = "vite"
            /\ UNCHANGED <<failedStep, listenCalls, exitCode, distPath>>
    /\ UNCHANGED <<envVars, genHits, admHits, win, inflight, last>>

\* index.ts 127: registerRoutes rejected
RoutesFailed ==
    /\ boot = "routes"
    /\ Fatal("registerRoutes")
    /\ UNCHANGED <<envVars, stack, distPath, genHits, admHits, win, inflight, last>>

\* index.ts 146-158: setupVite resolved, then listen
ViteReady ==
    /\ boot = "vite"
    /\ stack' = stack \o ViteLayers
    /\ Listen
    /\ UNCHANGED <<envVars, distPath, genHits, admHits, win, inflight, last>>

\* index.ts 146: setupVite rejected
ViteFailed ==
    /\ boot = "vite"
    /\ Fatal("setupVite")
    /\ UNCHANGED <<envVars, stack, distPath, genHits, admHits, win, inflight, last>>

Req(c, m, p, s, b, t) ==
    [client |-> c, method |-> m, path |-> p, secure |-> s, bodyOk |-> b, tplOk |-> t]

\* an insecure request differs from a secure one only where forceHTTPS is installed
Channels == IF isProd THEN BOOLEAN ELSE {TRUE}

\* the template read and the transform happen only in development
Templates(p) == IF ~isProd /\ p = "/page" THEN BOOLEAN ELSE {TRUE}

\* paths the model sends a POST to, and those it sends a broken JSON body to
PostPaths == {CtReportPath, LoginPath, "/assets/missing.js", "/page"}
BodyPaths == {CtReportPath, LoginPath}

Requests(clients) ==
    {Req(c, "GET", p, s, TRUE, t) :
        c \in clients, p \in Paths, s \in Channels, t \in BOOLEAN} \cup
    {Req(c, "POST", p, s, b, t) :
        c \in clients, p \in PostPaths, s \in Channels, b \in BOOLEAN, t \in BOOLEAN}

WellFormed(rq) ==
    /\ rq.tplOk \in Templates(rq.path)
    /\ ~rq.bodyOk => rq.path \in BodyPaths

Park(rq, st) ==
    [client |-> rq.client, method |-> rq.method, path |-> rq.path,
     passed |-> st.passed, at |-> st.at, hook |-> st.hook, logger |-> st.logger,
     stale |-> FALSE]

\* a request arrives and runs down the stack until it is answered or reaches
\* a business handler; at most room requests wait in business handlers
ArriveWithin(rq, room) ==
    LET st == Walk(stack, 1, rq, StartWalk(genHits, admHits))
        bare == Walk(Unlogged(stack), 1, rq, StartWalk(genHits, admHits))
        c == rq.client
    IN  /\ boot = "listening"
        /\ st.parked => Len(inflight) < room
        /\ genHits' = st.gen
        /\ admHits' = IF Decrements(st) THEN Decrement(st.adm, c) ELSE st.adm
        /\ win' = [win EXCEPT
                     ![c].api = IF InSeq("generalLimiter", st.passed) THEN @ + 1 ELSE @,
                     ![c].seen = IF InSeq("adminLoginLimiter", st.passed) THEN @ + 1 ELSE @,
                     ![c].over = @ \/ st.by = "adminLoginLimiter"]
        /\ inflight' = IF st.parked THEN Append(inflight, Park(rq, st)) ELSE inflight
        /\ last' = Observe("arrive", rq, st, win[c], bare)
        /\ UNCHANGED <<envVars, bootVars>>

Arrive(rq) == ArriveWithin(rq, MaxInFlight)

\* what a business handler may do with a request: answer, or forward an error
\* before or after it has begun to write
Answers(path) ==
    {[kind |-> "respond", status |-> 200, headersSent |-> TRUE, loggable |-> TRUE]} \cup
    (IF path = LoginPath
     THEN {[kind |-> "respond", status |-> 401, headersSent |-> TRUE, loggable |-> TRUE]}
     ELSE {})

\* answers whose body JSON.stringify refuses by the time the response finishes
Unloggable(path) == {[o EXCEPT !.loggable = FALSE] : o \in Answers(path)}

Errors ==
    {[kind |-> "error", status |-> 500, headersSent |-> h, loggable |-> TRUE] :
        h \in BOOLEAN}

Resume(r, o) ==
    LET st0 == [StartWalk(genHits, admHits) EXCEPT
                   !.passed = r.passed, !.hook = r.hook, !.logger = r.logger,
                   !.loggable = o.loggable]
    IN  IF o.kind = "respond"
        THEN Respond(st0, "routes", o.status, ResJson(st0, [business |-> TRUE]))
        ELSE Forward(IF o.headersSent
                     THEN [st0 EXCEPT !.headersSent = TRUE, !.by = "routes",
                                      !.status = 200]
                     ELSE st0, "routes", o.status)

Remove(s, k) == SubSeq(s, 1, k - 1) \o SubSeq(s, k + 1, Len(s))

\* a business handler finishes: it answers, or forwards an error down the stack;
\* at most okMax logins of a window are followed to a success
FinishWithin(k, o, okMax) ==
    LET r == inflight[k]
        rq == Req(r.client, r.method, r.path, TRUE, TRUE, TRUE)
        st == Walk(stack, r.at + 1, rq, Resume(r, o))
        bare == Walk(Unlogged(stack), r.at + 1, rq, Resume([r EXCEPT !.logger = FALSE], o))
        c == r.client
        good == r.hook /\ Finished(st) /\ st.status < 400
    IN  /\ boot = "listening"
        /\ good /\ ~r.stale => win[c].ok < okMax
        /\ admHits' = IF Decrements(st) THEN Decrement(admHits, c) ELSE admHits
        /\ win' = IF ~r.hook THEN win
                  ELSE IF good /\ r.stale THEN [win EXCEPT ![c].leak = TRUE]
                  ELSE IF good THEN [win EXCEPT ![c].ok = @ + 1]
                  ELSE IF r.stale THEN win
                  ELSE [win EXCEPT ![c].fail = @ + 1]
        /\ inflight' = Remove(inflight, k)
        /\ last' = Observe("finish", rq, st, win[c], bare)
        /\ UNCHANGED <<envVars, bootVars, genHits>>

Finish(k, o) == FinishWithin(k, o, MaxLoginOk)

\* a window that ends without the store forgetting the client's hits
GeneralWindowKept(c) ==
    /\ genHits[c] > 0 \/ win[c].api > 0
    /\ win' = [win EXCEPT ![c].api = 0, ![c].genEnded = win[c].api > GeneralMax]
    /\ UNCHANGED <<envVars, bootVars, genHits, admHits, inflight, last>>

\* the general limiter's window of a client elapses
GeneralWindowReset(c) ==
    /\ genHits[c] > 0 \/ win[c].api > 0
    /\ genHits' = [genHits EXCEPT ![c] = 0]
    /\ win' = [win EXCEPT ![c].api = 0, ![c].genEnded = win[c].api > GeneralMax]
    /\ UNCHANGED <<envVars, bootVars, admHits, inflight, last>>

\* the admin-login limiter's window of a client elapses
AdminWindowReset(c) ==
    /\ admHits[c] > 0 \/ win[c].seen > 0 \/ win[c].leak
    /\ admHits' = [admHits EXCEPT ![c] = 0]
    /\ win' = [win EXCEPT ![c] = [ZeroWin EXCEPT !.api = win[c].api,
                                                !.genEnded = win[c].genEnded,
                                                !.admEnded = win[c].over]]
    /\ inflight' = [k \in 1..Len(inflight) |->
                      IF inflight[k].client = c /\ inflight[k].hook
                      THEN [inflight[k] EXCEPT !.stale = TRUE] ELSE inflight[k]]
    /\ UNCHANGED <<envVars, bootVars, genHits, last>>

Bootstrap == RoutesRegistered \/ RoutesFailed \/ ViteReady \/ ViteFailed

WindowReset == \E c \in Clients : GeneralWindowReset(c) \/ AdminWindowReset(c)

\* ---------------------------------------------------------- specifications

\* the bootstrap alone, in every environment
InitBoot == InitIn(Environments)

SpecBoot == InitBoot /\ [][Bootstrap]_vars

\* the whole pipeline under every kind of request, a few of them counted
Init == InitIn(PipelineEnvironments)

ArriveFew ==
    \E rq \in Requests({"c1"}) :
        /\ WellFormed(rq)
        /\ UnderApi(rq.path) => genHits[rq.client] < MaxFewHits
        /\ UnderLogin(rq.path) => win[rq.client].seen < MaxFewHits
        /\ Arrive(rq)

Completion ==
    \E k \in 1..Len(inflight) :
        \E o \in Answers(inflight[k].path) \cup Unloggable(inflight[k].path) \cup Errors :
            Finish(k, o)

Next == Bootstrap \/ ArriveFew \/ Completion \/ WindowReset

Spec == Init /\ [][Next]_vars

\* the same inside one window of both limiters
NextServe == Bootstrap \/ ArriveFew \/ Completion

SpecServe == Init /\ [][NextServe]_vars

\* the general limiter over one window: a complete production deployment, one
\* client that may exhaust both quotas and a second one beside it, business
\* handlers that answer, and logins whose credentials are refused
InitLimiter == InitIn(ProductionEnvironments)

LimiterRequests ==
    {Req("c1", "POST", LoginPath, TRUE, b, TRUE) : b \in BOOLEAN} \cup
    {Req("c1", "GET", "/api/items", s, TRUE, TRUE) : s \in BOOLEAN} \cup
    {Req("c2", "GET", "/api/items", TRUE, TRUE, TRUE)} \cup
    {Req("c1", "POST", CtReportPath, TRUE, TRUE, TRUE)} \cup
    {Req("c1", "GET", p, TRUE, TRUE, TRUE) : p \in UploadPaths}

Quota(c) == IF c = "c1" THEN GeneralMax + Overshoot ELSE MaxOtherHits

ArriveCounted ==
    \E rq \in LimiterRequests :
        /\ genHits[rq.client] < Quota(rq.client)
        /\ UnderLogin(rq.path) => win[rq.client].seen < AdminMax + Overshoot
        /\ Arrive(rq)

Refusals(path) == {o \in Answers(path) : path = LoginPath => o.status = 401}

Answered ==
    \E k \in 1..Len(inflight) : \E o \in Refusals(inflight[k].path) : Finish(k, o)

ProductionBoot == RoutesRegistered \/ RoutesFailed

NextLimiter == ProductionBoot \/ ArriveCounted \/ Answered

SpecLimiter == InitLimiter /\ [][NextLimiter]_vars

\* the admin-login limiter over one window: a complete deployment in either
\* mode, logins of two clients over either channel with whole or broken bodies,
\* credentials accepted or refused
InitLogin == InitIn(LimiterEnvironments)

LoginRequests ==
    {Req(c, "POST", LoginPath, s, b, TRUE) : c \in Clients, s \in Channels, b \in BOOLEAN}

LoginQuota(c) == IF c = "c1" THEN AdminMax + Overshoot + MaxLoginOk ELSE MaxOtherHits

ArriveLogin ==
    \E rq \in LoginRequests :
        /\ win[rq.client].seen < LoginQuota(rq.client)
        /\ Arrive(rq)

LoginAnswered ==
    \E k \in 1..Len(inflight) : \E o \in Answers(inflight[k].path) : Finish(k, o)

\* both limiters across their windows: a complete production deployment, one
\* client that may exhaust either quota, logins whose credentials are refused,
\* and windows that elapse
WindowRequests ==
    {Req("c1", "POST", LoginPath, TRUE, TRUE, TRUE),
     Req("c1", "GET", "/api/items", TRUE, TRUE, TRUE)}

ArriveWindowed ==
    \E rq \in WindowRequests :
        /\ genHits[rq.client] < GeneralMax + Overshoot
        /\ UnderLogin(rq.path) => win[rq.client].seen < AdminMax + Overshoot
        /\ Arrive(rq)

Elapse == GeneralWindowReset("c1") \/ AdminWindowReset("c1")

NextWindow == ProductionBoot \/ ArriveWindowed \/ Answered \/ Elapse

SpecWindow == InitLimiter /\ [][NextWindow]_vars

\* interleaved logins of one client: a complete production deployment, logins
\* that wait in the business handler while others arrive, credentials accepted
\* or refused in any order, and an admin-login window that may elapse while
\* logins are still waiting
InterleavedLogin == Req("c1", "POST", LoginPath, TRUE, TRUE, TRUE)

ArriveInterleaved ==
    /\ win["c1"].seen < AdminMax + Overshoot
    /\ genHits["c1"] < AdminMax + Overshoot + MaxInFlight
    /\ ArriveWithin(InterleavedLogin, AdminMax)

AnsweredInterleaved ==
    \E k \in 1..Len(inflight) : \E o \in Answers(inflight[k].path) :
        FinishWithin(k, o, AdminMax)

NextInterleaved ==
    ProductionBoot \/ ArriveInterleaved \/ AnsweredInterleaved \/ AdminWindowReset("c1")

SpecInterleaved == InitLimiter /\ [][NextInterleaved]_vars

NextLogin == Bootstrap \/ ArriveLogin \/ LoginAnswered

SpecLogin == InitLogin /\ [][NextLogin]_vars

\* ------------------------------------------------------------------ claims

Reached(s) == InSeq(s, last.passed)

Rejected(s, b) ==
    /\ last.by = s
    /\ last.status = 429
    /\ last.body = b
    /\ ~last.parked
    /\ ~Reached("routes")

ApiArrival == last.ev = "arrive" /\ UnderApi(last.path)

LoginArrival == last.ev = "arrive" /\ last.path = LoginPath

\* C1 as stated: of a client's requests to any path under /api in one window,
\* none of the first 100 is rejected by the general limiter, and a request that
\* arrives after 100 were counted gets the rejection body and never reaches the
\* business routes.
C1_EveryApiPathLimited ==
    ApiArrival =>
        /\ last.before.api < GeneralMax => last.by # "generalLimiter"
        /\ last.before.api >= GeneralMax => Rejected("generalLimiter", GeneralMessage)

\* C1 amended: every request to a path under /api that no earlier stage has
\* answered or failed reaches the general limiter; of those of one client in one
\* window the first 100 pass it, and the 101st gets the rejection body with 429
\* and never reaches the business routes.
C1_GeneralQuota ==
    ApiArrival =>
        /\ (last.by \notin {"forceHTTPS", "ctReport"} /\ last.errBy \notin {"ctReport", "json"})
              => Reached("generalLimiter")
        /\ Reached("generalLimiter") =>
              /\ last.genTotal = last.before.api + 1
              /\ last.genTotal <= GeneralMax => last.by # "generalLimiter"
              /\ last.genTotal > GeneralMax => Rejected("generalLimiter", GeneralMessage)

C1_Witness ==
    /\ ApiArrival
    /\ last.path = "/api/items"
    /\ last.before.api = GeneralMax
    /\ Rejected("generalLimiter", GeneralMessage)

\* C2: when none of a client's logins of the window was answered below 400, its
\* requests 1 to 5 that reach the admin-login limiter reach the login handler
\* and its request 6 is rejected by that limiter with 429 and the
\* {success: false, message} body, without reaching the handler.
C2_SixthLoginRejected ==
    (LoginArrival /\ Reached("adminLoginLimiter")
       /\ last.before.ok = 0 /\ ~last.before.leak) =>
        /\ last.before.seen < AdminMax => last.parked /\ Reached("routes")
        /\ last.before.seen >= AdminMax =>
              Rejected("adminLoginLimiter", AdminLoginMessage)

C2_Witness ==
    /\ LoginArrival
    /\ last.before.seen = AdminMax
    /\ last.before.fail = AdminMax
    /\ last.before.ok = 0
    /\ Rejected("adminLoginLimiter", AdminLoginMessage)

\* C3 as stated: after 5 failed logins and 1 successful one in a window, the
\* client's next (7th) request is admitted to the handler.
C3_SeventhAdmitted ==
    (LoginArrival /\ Reached("adminLoginLimiter") /\ ~last.before.leak
       /\ last.before.seen = 6 /\ last.before.fail = 5 /\ last.before.ok = 1)
    => last.parked

\* C3 amended: a successful login does not count against the quota of 5: the
\* limiter holds against the client the logins of the window less those answered
\* below 400, so after 4 failed logins and 1 successful one the next (6th)
\* request is admitted, and after 5 failed logins the next request is rejected
\* whether or not a successful one was made.
C3_SuccessNotCounted ==
    (LoginArrival /\ Reached("adminLoginLimiter") /\ ~last.before.leak) =>
        /\ last.admTotal = last.before.seen - last.before.ok + 1
        /\ (last.before.seen = 5 /\ last.before.fail = 4 /\ last.before.ok = 1)
              => last.parked /\ Reached("routes")
        /\ last.before.fail >= AdminMax =>
              Rejected("adminLoginLimiter", AdminLoginMessage)

C3_Witness ==
    /\ LoginArrival
    /\ last.before.seen = 5
    /\ last.before.fail = 4
    /\ last.before.ok = 1
    /\ last.parked

\* C4: a request to the admin login path that reaches the limiters is rejected
\* by the general limiter when the client's general count exceeds 100, by the
\* admin-login limiter when its admin-login count exceeds 5, and reaches the
\* login handler only when it has passed both within their maxima; with 100
\* requests counted by the general limiter or 5 logins counted by the
\* admin-login limiter in the window, it is answered 429 and never reaches the
\* login handler.
C4_BothLimitersGate ==
    LoginArrival =>
        /\ Reached("generalLimiter") =>
              /\ last.genTotal > GeneralMax => Rejected("generalLimiter", GeneralMessage)
              /\ last.genTotal <= GeneralMax =>
                    /\ Reached("adminLoginLimiter")
                    /\ last.admTotal > AdminMax =>
                          Rejected("adminLoginLimiter", AdminLoginMessage)
                    /\ last.admTotal <= AdminMax => last.parked
        /\ last.parked =>
              /\ Reached("generalLimiter") /\ last.genTotal \in 1..GeneralMax
              /\ Reached("adminLoginLimiter") /\ last.admTotal \in 1..AdminMax
        /\ (\/ last.before.api >= GeneralMax
            \/ last.before.seen - last.before.ok >= AdminMax)
              => /\ ~last.parked
                 /\ ~Reached("routes")
                 /\ Reached("generalLimiter") => last.status = 429

C4_Witness ==
    /\ LoginArrival
    /\ Rejected("generalLimiter", GeneralMessage)
    /\ last.before.seen < AdminMax

StaticStages == {"assetsStatic", "rootStatic", "spaFallback"}

SecurityStages ==
    {"forceHTTPS", "cors", "addSecurityHeaders", "addHTTPSSecurityHeaders",
     "generalLimiter", "adminLoginLimiter"}

IndexHtml == [file |-> "/index.html"]

\* a GET that production's static delivery has to answer from a complete build
StaticGet ==
    /\ isProd
    /\ last.ev = "arrive"
    /\ last.method = "GET"
    /\ last.by # "forceHTTPS"
    /\ distPath # NoDir
    /\ dirs[distPath] = "built"

\* C5: in production a GET for a file missing under /assets is answered with
\* 404 and never with the entry-point HTML, while a GET for another unmatched
\* non-API path is answered with index.html.
C5_MissingAssetIs404 ==
    StaticGet =>
        /\ last.path = "/assets/missing.js" => last.status = 404 /\ last.body # IndexHtml
        /\ last.path = "/page" => last.status = 200 /\ last.body = IndexHtml

\* C6: once production listens, the static root is the first candidate, in
\* order and with the FRONTEND_DIR override first, that contains index.html;
\* when no candidate contains it the bootstrap fails in serveStatic and never
\* listens.
C6_FirstCandidateWithIndex ==
    LET cands == Candidates(frontendDir)
        some == \E i \in 1..Len(cands) : dirs[cands[i]] = "built"
    IN  isProd =>
          /\ boot = "listening" =>
                \E i \in 1..Len(cands) :
                    /\ distPath = cands[i]
                    /\ dirs[cands[i]] = "built"
                    /\ \A j \in 1..(i - 1) : dirs[cands[j]] # "built"
          /\ (~some /\ boot # "routes" /\ failedStep # "registerRoutes") =>
                boot = "exited" /\ failedStep = "serveStatic"

\* C7: listen() is called at most once and only after every installation step
\* has succeeded: the routes, the error handler and the mode's asset branch are
\* installed and nothing has failed; when registerRoutes, setupVite or the
\* static root resolution fails, listen() is never called and the process exits
\* with code 1.
C7_ListenAfterInstall ==
    /\ listenCalls <= 1
    /\ (boot = "listening") = (listenCalls = 1)
    /\ listenCalls = 1 =>
          /\ failedStep = "none" /\ exitCode = -1
          /\ InSeq("routes", stack) /\ InSeq("errorHandler", stack)
          /\ isProd => distPath # NoDir /\ Exists(dirs, distPath) /\ InSeq("spaFallback", stack)
          /\ ~isProd => InSeq("devCatchAll", stack)
    /\ failedStep # "none" => listenCalls = 0 /\ exitCode = 1 /\ boot = "exited"
    /\ (isProd /\ boot # "routes" /\ failedStep # "registerRoutes"
          /\ ResolveRoot(serveStaticImpl, frontendDir, dirs) = NoDir)
          => failedStep = "serveStatic"
    /\ exitCode # -1 => failedStep # "none"

C7_Witness ==
    /\ failedStep = "serveStatic"
    /\ boot = "exited"
    /\ listenCalls = 0
    /\ exitCode = 1

\* C8: in production the static handlers are installed before the HTTPS
\* forcing, CORS, security-header and rate-limit stages, and a request answered
\* by static delivery has passed through none of those stages.
C8_StaticBeforeSecurity ==
    (isProd /\ last.ev = "arrive" /\ last.by \in StaticStages) =>
        /\ \A i, j \in 1..Len(stack) :
              (stack[i] \in StaticStages /\ stack[j] \in SecurityStages) => i < j
        /\ \A k \in 1..Len(last.passed) : last.passed[k] \notin SecurityStages

\* C9: the terminal error handler is the last layer installed, after the
\* development branch and the production static branch, and an error forwarded
\* by any stage reaches it.
C9_ErrorHandlerLast ==
    (boot = "listening" /\ last.err # 0) =>
        /\ stack[Len(stack)] = "errorHandler"
        /\ Reached("errorHandler")

\* C10: an error that reaches the terminal error handler after the response
\* headers were sent is only logged: the handler attempts no second response.
C10_NoSecondResponse ==
    Reached("errorHandler") => ~last.doubleWrite

\* C11: the logger is a side channel: the status and the body of every response
\* to a request under /api are those the same stack delivers with the logger's
\* layer doing nothing, also when the body cannot be serialized for the line.
C11_LoggerSideChannel ==
    (last.ev # "none" /\ UnderApi(last.path) /\ ~last.parked) =>
        last.bare = [status |-> last.status, body |-> last.body]

C11_Witness ==
    /\ last.ev = "finish"
    /\ UnderApi(last.path)
    /\ Reached("logger")
    /\ last.by = "routes"
    /\ ~last.loggable
    /\ last.logged = 1
    /\ ~last.snippet
    /\ last.bare = [status |-> 200, body |-> [business |-> TRUE]]

\* C12: every POST to /api/security/ct-report that is not redirected to HTTPS
\* is answered with the same success acknowledgment whatever its body, and a
\* malformed JSON body produces no error response.
C12_AlwaysAcknowledged ==
    (/\ last.ev = "arrive"
     /\ last.method = "POST"
     /\ last.path = CtReportPath
     /\ last.by # "forceHTTPS") =>
        /\ last.err = 0
        /\ last.status = 200
        /\ last.body = [success |-> TRUE]

\* C13: a request to /uploads passes the CORS check, and one of a client whose
\* general quota of the window is used up is rejected by the limiter instead
\* of being served the file.
C13_UploadsRateLimited ==
    (/\ last.ev = "arrive"
     /\ UnderUploads(last.path)
     /\ last.before.api >= GeneralMax) =>
        /\ Reached("cors")
        /\ Rejected("generalLimiter", GeneralMessage)

DevStages == {"viteMiddlewares", "devCatchAll"}

\* the stages of the mode's own branch and of no other are installed and run
ModeKept ==
    /\ InSeq("forceHTTPS", stack) = isProd
    /\ \A i \in 1..Len(stack) :
          stack[i] \notin (IF isProd THEN DevStages ELSE StaticStages)
    /\ boot = "listening" =>
          \A s \in (IF isProd THEN StaticStages \ {"assetsStatic"} ELSE DevStages) :
              InSeq(s, stack)
    /\ \A k \in 1..Len(last.passed) :
          last.passed[k] \notin
              (IF isProd THEN DevStages ELSE StaticStages \cup {"forceHTTPS"})
    /\ last.by \notin (IF isProd THEN DevStages ELSE StaticStages \cup {"forceHTTPS"})

\* C14: the mode is fixed at startup and never leaks across branches: in
\* development forceHTTPS is never installed or run and only the development
\* asset branch is installed; in production forceHTTPS is installed and only
\* the static/SPA branch is, never the development transform.
C14_ModeNeverLeaks == []ModeKept /\ [][isProd' = isProd]_vars

C14_Witness ==
    /\ ~isProd
    /\ boot = "listening"
    /\ last.ev = "arrive"
    /\ last.by = "devCatchAll"
    /\ ~Reached("forceHTTPS")

\* the step's observation is of an arrival of this request
IsArrivalOf(rq) ==
    /\ last'.ev = "arrive"
    /\ last'.client = rq.client
    /\ last'.method = rq.method
    /\ last'.path = rq.path

\* C15: the two limiters share no state: a request to an API path other than
\* the admin login path leaves every admin-login count unchanged, and a login
\* that finishes successfully gives its hit back to the admin-login limiter
\* only, leaving every count of the general limiter unchanged.
C15_LimitersIndependent ==
    [][/\ \A rq \in Requests(Clients) :
             (/\ UnderApi(rq.path) /\ rq.path # LoginPath
              /\ IsArrivalOf(rq)
              /\ Arrive(rq))
                => admHits' = admHits
       /\ \A k \in 1..Len(inflight) : \A o \in Answers(inflight[k].path) :
             (/\ inflight[k].hook /\ o.status < 400
              /\ last'.ev = "finish"
              /\ Finish(k, o))
                => /\ genHits' = genHits
                   /\ admHits' = Decrement(admHits, inflight[k].client)]_vars

C15_Witness ==
    /\ last.ev = "finish"
    /\ last.path = LoginPath
    /\ last.decremented
    /\ genHits[last.client] = 1
    /\ admHits[last.client] = 0

\* C16: a client's count in a limiter starts again when the limiter's window
\* elapses: its first request to reach the limiter in a window is counted as 1
\* and is not rejected by that limiter, also when the limiter rejected the
\* client in the window before; and a request over the maximum inside the
\* window is answered 429 at once and never parked.
C16_WindowResets ==
    last.ev = "arrive" =>
        /\ (Reached("generalLimiter") /\ last.before.api = 0) =>
              /\ last.genTotal = 1
              /\ last.by # "generalLimiter"
              /\ last.path = "/api/items" => last.parked
        /\ (Reached("adminLoginLimiter") /\ last.before.seen = 0) =>
              /\ last.admTotal = 1
              /\ last.parked
        /\ last.genTotal > GeneralMax => Rejected("generalLimiter", GeneralMessage)
        /\ last.admTotal > AdminMax => Rejected("adminLoginLimiter", AdminLoginMessage)

C16_Witness ==
    /\ LoginArrival
    /\ last.before.genEnded
    /\ last.before.admEnded
    /\ last.before.api = 0
    /\ last.before.seen = 0
    /\ last.genTotal = 1
    /\ last.admTotal = 1
    /\ last.parked

\* C17: in development an error of the template read or the transform writes
\* no partial response and is answered by the terminal error handler with the
\* JSON body {message} and the error's status.
C17_DevErrorToErrorHandler ==
    (~isProd /\ last.ev = "arrive" /\ last.errBy = "devCatchAll") =>
        /\ ~last.doubleWrite /\ ~last.aborted
        /\ Reached("errorHandler")
        /\ last.by = "errorHandler"
        /\ last.status = last.err
        /\ last.body = [message |-> "error"]

\* C18: every response to a request under /api that no error and no HTTPS
\* redirect produced, those of the rate limiters and of the CT-report endpoint
\* included, produces exactly one log line, and no request outside /api
\* produces one.
C18_OneLinePerApiResponse ==
    (/\ last.ev # "none"
     /\ ~last.parked
     /\ ~last.aborted
     /\ last.err = 0
     /\ last.by # "forceHTTPS") =>
        last.logged = (IF UnderApi(last.path) THEN 1 ELSE 0)

\* C19: on the admin login path the general limiter runs before the
\* admin-login limiter: a login the general limiter rejects is counted by it
\* and leaves every admin-login count unchanged, while a login the admin-login
\* limiter rejects has been counted by both.
C19_GeneralRunsFirst ==
    [][(last'.ev = "arrive" /\ last'.by \in {"generalLimiter", "adminLoginLimiter"}) =>
       \A rq \in LoginRequests :
          (IsArrivalOf(rq) /\ Arrive(rq)) =>
             /\ last'.by = "generalLimiter" =>
                   /\ genHits'[rq.client] = genHits[rq.client] + 1
                   /\ admHits' = admHits
                   /\ win'[rq.client].seen = win[rq.client].seen
             /\ last'.by = "adminLoginLimiter" =>
                   /\ genHits'[rq.client] = genHits[rq.client] + 1
                   /\ admHits'[rq.client] = admHits[rq.client] + 1]_vars

C19_Witness ==
    /\ LoginArrival
    /\ last.by = "generalLimiter"
    /\ last.status = 429
    /\ genHits[last.client] = GeneralMax + 1
    /\ admHits[last.client] = last.before.seen
    /\ win[last.client].seen = last.before.seen
    /\ last.before.seen > 0

\* C20: under interleaved logins of one client the admin-login count never
\* goes below zero, always equals the logins received in the window minus those
\* of them that completed successfully, and a login that arrives while AdminMax
\* logins of the window are still waiting is rejected with 429
C20_CountIsReceivedMinusSucceeded ==
    /\ \A c \in Clients :
          /\ admHits[c] >= 0
          /\ admHits[c] = win[c].seen - win[c].ok
    /\ (LoginArrival /\ last.before.seen - last.before.ok >= AdminMax) =>
          Rejected("adminLoginLimiter", AdminLoginMessage)

====
